---- MODULE Spec2Model ----
(***************************************************************************)
(* The paras module (runtime/parachains/src/paras.rs): storage of the      *)
(* parachains' heads and validation code, the per-para ledger of past      *)
(* code (ParaPastCodeMeta), the pruning queue, the pending code upgrades   *)
(* and the session-boundary registration and clean-up of paras.            *)
(*                                                                         *)
(* Option<T> is modelled as a sequence: None is <<>>, Some(x) is <<x>>.    *)
(* Vec indices are the Rust ones (from 0); v[i+1] reads the element i.     *)
(***************************************************************************)
EXTENDS Integers, Sequences, FiniteSets, TLC

\* ------------------------------------------------------------------ bounds

\* The block number never exceeds MaxBlock (guard of SetBlockNumber).
MaxBlock == 3
\* configuration::Module::config().acceptance_period.
AcceptancePeriod == 1
\* The callers make at most MaxCalls calls of schedule_para_initialize,
\* schedule_para_cleanup, schedule_code_upgrade and note_new_head (one more
\* under SpecDeep).
MaxCalls == 3
\* The ledger test notes at most MaxEntries replacements.
MaxEntries == 3

\* The para ids.
ParaIds == {0, 1}
BlockNumbers == 0 .. MaxBlock

\* ValidationCode::default(), the empty code.
EmptyCode == 0
\* The codes a caller may supply (genesis code, upgrades).
Codes == {1, 2}
\* HeadData::default() and one other head.
DefaultHead == 0
\* The heads note_new_head is called with.
NewHeads == {1}
\* The validation code of a para's genesis arguments.
GenesisCode == 1

\* ------------------------------------------------------------------ Option

None == <<>>
Some(x) == <<x>>
IsSome(o) == o # <<>>
IsNone(o) == o = <<>>
Unwrap(o) == o[1]

\* ------------------------------------------------------------------ state

VARIABLES
    now,                  \* system::Module::block_number()
    pc,                   \* where the block's execution stands
    Parachains,           \* Vec<ParaId>
    Heads,                \* ParaId => Option<HeadData>
    CurrentCode,          \* ParaId => Option<ValidationCode>
    PastCode,             \* (ParaId, BlockNumber) => Option<ValidationCode>
    PastCodeMeta,         \* ParaId => ParaPastCodeMeta
    PastCodePruning,      \* Vec<(ParaId, BlockNumber)>
    FutureCodeUpgrades,   \* ParaId => Option<BlockNumber>
    FutureCode,           \* ParaId => ValidationCode (absent reads as default)
    UpcomingParas,        \* Vec<ParaId>
    UpcomingParasGenesis, \* ParaId => Option<ParaGenesisArgs>
    OutgoingParas,        \* Vec<ParaId>
    retiredAt,            \* history: the boundary at which the para was last cleaned up
    everCleanedUp,        \* history: the paras clean_up_outgoing has taken so far
    callsLeft             \* history: the number of calls the callers may still make

vars == <<now, pc, Parachains, Heads, CurrentCode, PastCode, PastCodeMeta,
          PastCodePruning, FutureCodeUpgrades, FutureCode, UpcomingParas,
          UpcomingParasGenesis, OutgoingParas, retiredAt,
          everCleanedUp, callsLeft>>

\* ------------------------------------------------------- ParaPastCodeMeta

\* ParaPastCodeMeta::default()
DefaultMeta == [upgrade_times |-> <<>>, last_pruned |-> None]

\* UseCodeAt
UseCurrent == [kind |-> "Current", n |-> 0]
ReplacedAt(n) == [kind |-> "ReplacedAt", n |-> n]

\* A mutant of PositionReplacedBefore: the predicate is |t| t.0 <= at.
PositionReplacedBefore_OrAt(ut, at) ==
    LET S == {i \in 1 .. Len(ut) : ut[i][1] <= at}
    IN  IF S = {} THEN None
        ELSE Some((CHOOSE i \in S : \A j \in S : i <= j) - 1)

\* Iterator::position over upgrade_times for the predicate |t| t.0 < at.
PositionReplacedBefore(ut, at) ==
    LET S == {i \in 1 .. Len(ut) : ut[i][1] < at}
    IN  IF S = {} THEN None
        ELSE Some((CHOOSE i \in S : \A j \in S : i <= j) - 1)

\* Iterator::position over upgrade_times for the predicate |t| t.1 <= max.
PositionIncludedUpTo(ut, max) ==
    LET S == {i \in 1 .. Len(ut) : ut[i][2] <= max}
    IN  IF S = {} THEN None
        ELSE Some((CHOOSE i \in S : \A j \in S : i <= j) - 1)

\* A mutant of note_replacement: the entry is pushed at the back.
note_replacement_Back(meta, at, included_at) ==
    [meta EXCEPT !.upgrade_times = @ \o <<<<at, included_at>>>>]

\* ParaPastCodeMeta::note_replacement: `upgrade_times.insert(0, ...)`
note_replacement(meta, at, included_at) ==
    [meta EXCEPT !.upgrade_times = <<<<at, included_at>>>> \o @]

\* ParaPastCodeMeta::code_at: Option<UseCodeAt>
code_at(meta, at) ==
    LET ut == meta.upgrade_times
        end_position == PositionReplacedBefore(ut, at)
    IN  IF IsSome(end_position)
        THEN Some(IF Unwrap(end_position) # 0
                  THEN ReplacedAt(ut[(Unwrap(end_position) - 1) + 1][1])
                  ELSE UseCurrent)
        ELSE IF IsNone(meta.last_pruned) \/ Unwrap(meta.last_pruned) < at
             THEN Some(IF Len(ut) > 0 THEN ReplacedAt(ut[Len(ut)][1])
                       ELSE UseCurrent)
             ELSE None

most_recent_change(meta) ==
    IF Len(meta.upgrade_times) > 0 THEN Some(meta.upgrade_times[1][1]) ELSE None

Reverse(s) == [i \in 1 .. Len(s) |-> s[Len(s) + 1 - i]]

\* A mutant of prune_up_to: only the entry at `pos` is drained.
prune_up_to_One(meta, max) ==
    LET ut == meta.upgrade_times
        pos == PositionIncludedUpTo(ut, max)
    IN  IF IsNone(pos)
        THEN [meta |-> meta, pruned |-> <<>>]
        ELSE LET p == Unwrap(pos)
             IN  [meta |-> [upgrade_times |->
                                SubSeq(ut, 1, p) \o SubSeq(ut, p + 2, Len(ut)),
                            last_pruned |-> Some(ut[p + 1][1])],
                  pruned |-> <<ut[p + 1][1]>>]

\* ParaPastCodeMeta::prune_up_to: the pruned meta and the replaced-at numbers
\* the iterator yields.
prune_up_to(meta, max) ==
    LET ut == meta.upgrade_times
        pos == PositionIncludedUpTo(ut, max)
    IN  IF IsNone(pos)
        THEN [meta |-> meta, pruned |-> <<>>]
        ELSE LET p == Unwrap(pos)
                 drained == Reverse(SubSeq(ut, p + 1, Len(ut)))
             IN  [meta |-> [upgrade_times |-> SubSeq(ut, 1, p),
                            last_pruned |-> Some(ut[p + 1][1])],
                  pruned |-> [i \in 1 .. Len(drained) |-> drained[i][1]]]

\* ------------------------------------------------------------ Vec helpers

RECURSIVE BinarySearchLoop_NoStep(_, _, _, _)
\* A mutant of BinarySearchLoop: Err(base) also when the last probe is below
\* the key.
BinarySearchLoop_NoStep(keys, key, base, size) ==
    IF size > 1
    THEN LET half == size \div 2
             mid == base + half
         IN  BinarySearchLoop_NoStep(keys, key,
                                     IF keys[mid + 1] > key THEN base ELSE mid,
                                     size - half)
    ELSE IF keys[base + 1] = key THEN [ok |-> TRUE, idx |-> base]
         ELSE [ok |-> FALSE, idx |-> base]

RECURSIVE BinarySearchLoop(_, _, _, _)
\* slice::binary_search_by: the loop that halves `size` from `base`.
BinarySearchLoop(keys, key, base, size) ==
    IF size > 1
    THEN LET half == size \div 2
             mid == base + half
         IN  BinarySearchLoop(keys, key,
                              IF keys[mid + 1] > key THEN base ELSE mid,
                              size - half)
    ELSE IF keys[base + 1] = key THEN [ok |-> TRUE, idx |-> base]
         ELSE [ok |-> FALSE,
               idx |-> base + (IF keys[base + 1] < key THEN 1 ELSE 0)]

\* A mutant of BinarySearch: the key is never found.
BinarySearch_NotFound(keys, key) == [ok |-> FALSE, idx |-> 0]

\* slice::binary_search / binary_search_by_key over the keys of a Vec:
\* Ok(idx) or Err(idx).
BinarySearch(keys, key) ==
    IF Len(keys) = 0 THEN [ok |-> FALSE, idx |-> 0]
    ELSE BinarySearchLoop(keys, key, 0, Len(keys))

\* A mutant of VecInsert: the element is pushed at the back.
VecInsert_Push(v, idx, x) == Append(v, x)

\* Vec::insert(idx, x)
VecInsert(v, idx, x) == SubSeq(v, 1, idx) \o <<x>> \o SubSeq(v, idx + 1, Len(v))

\* Vec::remove(idx)
VecRemove(v, idx) == SubSeq(v, 1, idx) \o SubSeq(v, idx + 2, Len(v))

\* ------------------------------------------------------------ note_past_code

\* The three storage items note_past_code and do_old_code_pruning mutate.
PastStore(meta, past, pruning) == [meta |-> meta, past |-> past, pruning |-> pruning]

\* The block numbers of the pruning tasks, the keys binary_search_by_key reads.
PruningKeys(pruning) == [i \in 1 .. Len(pruning) |-> pruning[i][2]]

\* A mutant of note_past_code: the task carries the replaced-at number.
note_past_code_TaskAt(st, id, at, n, old_code) ==
    LET insert_idx == BinarySearch(PruningKeys(st.pruning), at).idx
    IN  PastStore([st.meta EXCEPT ![id] = note_replacement(@, at, n)],
                  [st.past EXCEPT ![<<id, at>>] = Some(old_code)],
                  VecInsert(st.pruning, insert_idx, <<id, at>>))

\* note_past_code(id, at, now, old_code)
note_past_code(st, id, at, n, old_code) ==
    LET insert_idx == BinarySearch(PruningKeys(st.pruning), at).idx
    IN  PastStore([st.meta EXCEPT ![id] = note_replacement(@, at, n)],
                  [st.past EXCEPT ![<<id, at>>] = Some(old_code)],
                  VecInsert(st.pruning, insert_idx, <<id, n>>))

\* ------------------------------------------------------- do_old_code_pruning

RECURSIVE TakeWhileUpTo(_, _)
\* pruning_tasks.iter().take_while(|&(_, at)| at <= &pruning_height).count()
TakeWhileUpTo(tasks, pruning_height) ==
    IF Len(tasks) = 0 \/ ~(tasks[1][2] <= pruning_height) THEN 0
    ELSE 1 + TakeWhileUpTo(Tail(tasks), pruning_height)

RECURSIVE RemovePastCode(_, _, _)
\* PastCode::remove(&(para_id, pruned_repl_at)) for each pruned_repl_at
RemovePastCode(past, para_id, pruned) ==
    IF Len(pruned) = 0 THEN past
    ELSE RemovePastCode([past EXCEPT ![<<para_id, Head(pruned)>>] = None],
                        para_id, Tail(pruned))

RECURSIVE PruneTasks(_, _, _, _)
\* The loop over the drained pruning tasks (lines 347-361).
PruneTasks(st, heads, to_do, pruning_height) ==
    IF Len(to_do) = 0 THEN st
    ELSE LET para_id == to_do[1][1]
             r == prune_up_to(st.meta[para_id], pruning_height)
             full_deactivate == IsNone(most_recent_change(r.meta))
                                /\ IsNone(heads[para_id])
             meta2 == [st.meta EXCEPT ![para_id] =
                          IF full_deactivate THEN DefaultMeta ELSE r.meta]
         IN  PruneTasks(PastStore(meta2,
                                  RemovePastCode(st.past, para_id, r.pruned),
                                  st.pruning),
                        heads, Tail(to_do), pruning_height)

\* do_old_code_pruning(now)
do_old_code_pruning(st, heads, n) ==
    IF n <= AcceptancePeriod THEN st
    ELSE LET pruning_height == n - (AcceptancePeriod + 1)
             up_to_idx == TakeWhileUpTo(st.pruning, pruning_height)
             to_do == SubSeq(st.pruning, 1, up_to_idx)
             rest == SubSeq(st.pruning, up_to_idx + 1, Len(st.pruning))
         IN  PruneTasks(PastStore(st.meta, st.past, rest), heads, to_do,
                        pruning_height)

\* --------------------------------------------------------- session change

RECURSIVE clean_up_outgoing_KeepFutureCode(_, _, _)
\* A mutant of clean_up_outgoing: FutureCode of the outgoing para is left.
clean_up_outgoing_KeepFutureCode(s, outgoing, n) ==
    IF Len(outgoing) = 0 THEN s
    ELSE LET outgoing_para == Head(outgoing)
             found == BinarySearch(s.parachains, outgoing_para)
             removed_code == s.cur[outgoing_para]
             st == PastStore(s.meta, s.past, s.pruning)
             st2 == IF IsSome(removed_code)
                    THEN note_past_code(st, outgoing_para, n, n, Unwrap(removed_code))
                    ELSE st
         IN  clean_up_outgoing_KeepFutureCode(
                 [parachains |-> IF found.ok THEN VecRemove(s.parachains, found.idx)
                                 ELSE s.parachains,
                  heads |-> [s.heads EXCEPT ![outgoing_para] = None],
                  fcu |-> [s.fcu EXCEPT ![outgoing_para] = None],
                  fc |-> s.fc,
                  cur |-> [s.cur EXCEPT ![outgoing_para] = None],
                  meta |-> st2.meta, past |-> st2.past, pruning |-> st2.pruning],
                 Tail(outgoing), n)

RECURSIVE clean_up_outgoing(_, _, _)
\* clean_up_outgoing(now): the loop over the taken OutgoingParas. `s` holds
\* the parachains being built and every storage item the loop writes.
clean_up_outgoing(s, outgoing, n) ==
    IF Len(outgoing) = 0 THEN s
    ELSE LET outgoing_para == Head(outgoing)
             found == BinarySearch(s.parachains, outgoing_para)
             removed_code == s.cur[outgoing_para]
             st == PastStore(s.meta, s.past, s.pruning)
             st2 == IF IsSome(removed_code)
                    THEN note_past_code(st, outgoing_para, n, n, Unwrap(removed_code))
                    ELSE st
         IN  clean_up_outgoing(
                 [parachains |-> IF found.ok THEN VecRemove(s.parachains, found.idx)
                                 ELSE s.parachains,
                  heads |-> [s.heads EXCEPT ![outgoing_para] = None],
                  fcu |-> [s.fcu EXCEPT ![outgoing_para] = None],
                  fc |-> [s.fc EXCEPT ![outgoing_para] = None],
                  cur |-> [s.cur EXCEPT ![outgoing_para] = None],
                  meta |-> st2.meta, past |-> st2.past, pruning |-> st2.pruning],
                 Tail(outgoing), n)

\* A mutant of IsParachain: every upcoming para is taken for a parachain.
IsParachain_Always(genesis_data) == TRUE

\* apply_incoming: `if genesis_data.parachain`
IsParachain(genesis_data) == genesis_data.parachain

RECURSIVE apply_incoming_KeepGenesis(_, _)
\* A mutant of apply_incoming: UpcomingParasGenesis is read, not taken.
apply_incoming_KeepGenesis(s, upcoming) ==
    IF Len(upcoming) = 0 THEN s
    ELSE LET upcoming_para == Head(upcoming)
             taken == s.genesis[upcoming_para]
         IN  IF IsNone(taken) THEN apply_incoming_KeepGenesis(s, Tail(upcoming))
             ELSE LET genesis_data == Unwrap(taken)
                      found == BinarySearch(s.parachains, upcoming_para)
                  IN  apply_incoming_KeepGenesis(
                          [parachains |-> IF IsParachain(genesis_data) /\ ~found.ok
                                          THEN VecInsert(s.parachains, found.idx,
                                                         upcoming_para)
                                          ELSE s.parachains,
                           heads |-> [s.heads EXCEPT ![upcoming_para] =
                                         Some(genesis_data.genesis_head)],
                           cur |-> [s.cur EXCEPT ![upcoming_para] =
                                       Some(genesis_data.validation_code)],
                           genesis |-> s.genesis],
                          Tail(upcoming))

RECURSIVE apply_incoming(_, _)
\* apply_incoming(&mut parachains): the loop over the taken UpcomingParas.
apply_incoming(s, upcoming) ==
    IF Len(upcoming) = 0 THEN s
    ELSE LET upcoming_para == Head(upcoming)
             taken == s.genesis[upcoming_para]
         IN  IF IsNone(taken) THEN apply_incoming(s, Tail(upcoming))
             ELSE LET genesis_data == Unwrap(taken)
                      found == BinarySearch(s.parachains, upcoming_para)
                  IN  apply_incoming(
                          [parachains |-> IF IsParachain(genesis_data) /\ ~found.ok
                                          THEN VecInsert(s.parachains, found.idx,
                                                         upcoming_para)
                                          ELSE s.parachains,
                           heads |-> [s.heads EXCEPT ![upcoming_para] =
                                         Some(genesis_data.genesis_head)],
                           cur |-> [s.cur EXCEPT ![upcoming_para] =
                                       Some(genesis_data.validation_code)],
                           genesis |-> [s.genesis EXCEPT ![upcoming_para] = None]],
                          Tail(upcoming))

\* A mutant of on_new_session: the incoming paras are applied first.
on_new_session_IncomingFirst(s, outgoing, upcoming, n) ==
    LET inc == apply_incoming(
                   [parachains |-> s.parachains, heads |-> s.heads,
                    cur |-> s.cur, genesis |-> s.genesis],
                   upcoming)
        out == clean_up_outgoing(
                   [parachains |-> inc.parachains, heads |-> inc.heads,
                    fcu |-> s.fcu, fc |-> s.fc, cur |-> inc.cur,
                    meta |-> s.meta, past |-> s.past, pruning |-> s.pruning],
                   outgoing, n)
    IN  [parachains |-> out.parachains, heads |-> out.heads, cur |-> out.cur,
         genesis |-> inc.genesis, fcu |-> out.fcu, fc |-> out.fc,
         meta |-> out.meta, past |-> out.past, pruning |-> out.pruning]

\* initializer_on_new_session: clean_up_outgoing(now), then apply_incoming on
\* the parachains it returns.
on_new_session(s, outgoing, upcoming, n) ==
    LET out == clean_up_outgoing(
                   [parachains |-> s.parachains, heads |-> s.heads,
                    fcu |-> s.fcu, fc |-> s.fc, cur |-> s.cur,
                    meta |-> s.meta, past |-> s.past, pruning |-> s.pruning],
                   outgoing, n)
        inc == apply_incoming(
                   [parachains |-> out.parachains, heads |-> out.heads,
                    cur |-> out.cur, genesis |-> s.genesis],
                   upcoming)
    IN  [parachains |-> inc.parachains, heads |-> inc.heads, cur |-> inc.cur,
         genesis |-> inc.genesis, fcu |-> out.fcu, fc |-> out.fc,
         meta |-> out.meta, past |-> out.past, pruning |-> out.pruning]

\* The elements of a Vec.
Elems(v) == {v[i] : i \in 1 .. Len(v)}

\* ------------------------------------------------------- validation_code_at

\* A mutant of IntermediateNotBefore: the comparison made strict.
IntermediateNotBefore_Strict(at, assume_intermediate) ==
    IsSome(assume_intermediate) /\ at < Unwrap(assume_intermediate)

\* validation_code_at: `assume_intermediate.as_ref().map_or(false, |i| &at <= i)`
IntermediateNotBefore(at, assume_intermediate) ==
    IsSome(assume_intermediate) /\ at <= Unwrap(assume_intermediate)

\* A mutant of UpgradeAppliedIntermediate: the comparison made strict.
UpgradeAppliedIntermediate_Strict(planned_upgrade, assume_intermediate) ==
    /\ IsSome(assume_intermediate)
    /\ IsSome(planned_upgrade)
    /\ Unwrap(planned_upgrade) < Unwrap(assume_intermediate)

\* validation_code_at: upgrade_applied_intermediate
UpgradeAppliedIntermediate(planned_upgrade, assume_intermediate) ==
    /\ IsSome(assume_intermediate)
    /\ IsSome(planned_upgrade)
    /\ Unwrap(planned_upgrade) <= Unwrap(assume_intermediate)

\* validation_code_at(id, at, assume_intermediate): Option<ValidationCode>
validation_code_at(id, at, assume_intermediate) ==
    IF IntermediateNotBefore(at, assume_intermediate) THEN None
    ELSE IF at + AcceptancePeriod + 1 < now THEN None
    ELSE IF UpgradeAppliedIntermediate(FutureCodeUpgrades[id], assume_intermediate)
         THEN Some(IF IsSome(FutureCode[id]) THEN Unwrap(FutureCode[id])
                   ELSE EmptyCode)
         ELSE LET use == code_at(PastCodeMeta[id], at)
              IN  IF IsNone(use) THEN None
                  ELSE IF Unwrap(use).kind = "Current" THEN CurrentCode[id]
                  ELSE PastCode[<<id, Unwrap(use).n>>]

\* ------------------------------------------------------------------ Init

\* ParaGenesisArgs a caller may supply.
GenesisArgs == [genesis_head : {DefaultHead}, validation_code : {GenesisCode},
                parachain : BOOLEAN]

\* GenesisConfig.paras: every para is registered at genesis with the genesis
\* code and the default head; para 0 is a parachain, the others are
\* parathreads (the genesis of the tests registers both kinds).
GenesisParas ==
    {[id \in ParaIds |-> Some([genesis_head |-> DefaultHead,
                               validation_code |-> GenesisCode,
                               parachain |-> (id = 0)])]}

RECURSIVE SortedSeq(_)
\* The ids of a set in ascending order (sort_unstable and dedup of build).
SortedSeq(S) ==
    IF S = {} THEN <<>>
    ELSE LET m == CHOOSE x \in S : \A y \in S : x <= y
         IN  <<m>> \o SortedSeq(S \ {m})

\* build(config): the storage after genesis; the callers may make `budget`
\* calls.
build(budget) ==
    \E paras \in GenesisParas :
        /\ now = 0
        /\ pc = "body"
        /\ Parachains = SortedSeq({id \in ParaIds :
                                      IsSome(paras[id]) /\ Unwrap(paras[id]).parachain})
        /\ Heads = [id \in ParaIds |->
                       IF IsSome(paras[id]) THEN Some(Unwrap(paras[id]).genesis_head)
                       ELSE None]
        /\ CurrentCode = [id \in ParaIds |->
                             IF IsSome(paras[id])
                             THEN Some(Unwrap(paras[id]).validation_code)
                             ELSE None]
        /\ PastCode = [k \in ParaIds \X BlockNumbers |-> None]
        /\ PastCodeMeta = [id \in ParaIds |-> DefaultMeta]
        /\ PastCodePruning = <<>>
        /\ FutureCodeUpgrades = [id \in ParaIds |-> None]
        /\ FutureCode = [id \in ParaIds |-> None]
        /\ UpcomingParas = <<>>
        /\ UpcomingParasGenesis = [id \in ParaIds |-> None]
        /\ OutgoingParas = <<>>
        /\ retiredAt = [id \in ParaIds |-> None]
        /\ everCleanedUp = {}
        /\ callsLeft = budget

Init == build(MaxCalls)

\* The same genesis with one more call allowed to the callers.
DeepCalls == MaxCalls + 1

InitDeep == build(DeepCalls)

\* ------------------------------------------------------------------ actions

\* run_to_block: System::set_block_number(b + 1) opens the next block.
SetBlockNumber ==
    /\ pc = "body"
    /\ now < MaxBlock
    /\ now' = now + 1
    /\ pc' = "new_block"
    /\ UNCHANGED <<Parachains, Heads, CurrentCode, PastCode, PastCodeMeta,
                   PastCodePruning, FutureCodeUpgrades, FutureCode, UpcomingParas,
                   UpcomingParasGenesis, OutgoingParas, retiredAt,
                   everCleanedUp, callsLeft>>

\* initializer_on_new_session, run before initializer_initialize in a block
\* that starts a session.
InitializerOnNewSession ==
    /\ pc = "new_block"
    /\ LET out == on_new_session(
                      [parachains |-> Parachains, heads |-> Heads,
                       fcu |-> FutureCodeUpgrades, fc |-> FutureCode,
                       cur |-> CurrentCode, meta |-> PastCodeMeta,
                       past |-> PastCode, pruning |-> PastCodePruning,
                       genesis |-> UpcomingParasGenesis],
                      OutgoingParas, UpcomingParas, now)
       IN  /\ Parachains' = out.parachains
           /\ Heads' = out.heads
           /\ CurrentCode' = out.cur
           /\ UpcomingParasGenesis' = out.genesis
           /\ FutureCodeUpgrades' = out.fcu
           /\ FutureCode' = out.fc
           /\ PastCodeMeta' = out.meta
           /\ PastCode' = out.past
           /\ PastCodePruning' = out.pruning
           /\ retiredAt' = [id \in ParaIds |->
                               IF id \in Elems(UpcomingParas)
                                  /\ IsSome(UpcomingParasGenesis[id])
                               THEN None
                               ELSE IF id \in Elems(OutgoingParas) THEN Some(now)
                               ELSE retiredAt[id]]
           /\ everCleanedUp' = everCleanedUp \cup Elems(OutgoingParas)
    /\ OutgoingParas' = <<>>
    /\ UpcomingParas' = <<>>
    /\ pc' = "initialize"
    /\ UNCHANGED <<now, callsLeft>>

\* initializer_initialize(now): the per-block hook.
InitializerInitialize ==
    /\ pc \in {"new_block", "initialize"}
    /\ LET st == do_old_code_pruning(
                     PastStore(PastCodeMeta, PastCode, PastCodePruning), Heads, now)
       IN  /\ PastCodeMeta' = st.meta
           /\ PastCode' = st.past
           /\ PastCodePruning' = st.pruning
    /\ pc' = "body"
    /\ UNCHANGED <<now, Parachains, Heads, CurrentCode, FutureCodeUpgrades,
                   FutureCode, UpcomingParas, UpcomingParasGenesis, OutgoingParas,
                   retiredAt,
                   everCleanedUp, callsLeft>>

\* schedule_para_initialize(id, genesis)
ScheduleParaInitialize(id, genesis) ==
    /\ pc = "body"
    /\ callsLeft > 0
    /\ callsLeft' = callsLeft - 1
    /\ LET found == BinarySearch(UpcomingParas, id)
       IN  IF found.ok
           THEN UNCHANGED <<UpcomingParas, UpcomingParasGenesis>>
           ELSE /\ UpcomingParas' = VecInsert(UpcomingParas, found.idx, id)
                /\ UpcomingParasGenesis' =
                       [UpcomingParasGenesis EXCEPT ![id] = Some(genesis)]
    /\ UNCHANGED <<now, pc, Parachains, Heads, CurrentCode, PastCode, PastCodeMeta,
                   PastCodePruning, FutureCodeUpgrades, FutureCode, OutgoingParas,
                   retiredAt,
                   everCleanedUp>>

\* A mutant of ScheduleParaCleanup: the para leaves Parachains at once.
ScheduleParaCleanup_Eager(id) ==
    /\ pc = "body"
    /\ callsLeft > 0
    /\ callsLeft' = callsLeft - 1
    /\ LET found == BinarySearch(OutgoingParas, id)
           active == BinarySearch(Parachains, id)
       IN  /\ IF found.ok
              THEN UNCHANGED OutgoingParas
              ELSE OutgoingParas' = VecInsert(OutgoingParas, found.idx, id)
           /\ IF active.ok
              THEN Parachains' = VecRemove(Parachains, active.idx)
              ELSE UNCHANGED Parachains
    /\ UNCHANGED <<now, pc, Heads, CurrentCode, PastCode, PastCodeMeta,
                   PastCodePruning, FutureCodeUpgrades, FutureCode, UpcomingParas,
                   UpcomingParasGenesis, retiredAt,
                   everCleanedUp>>

\* schedule_para_cleanup(id)
ScheduleParaCleanup(id) ==
    /\ pc = "body"
    /\ callsLeft > 0
    /\ callsLeft' = callsLeft - 1
    /\ LET found == BinarySearch(OutgoingParas, id)
       IN  IF found.ok
           THEN UNCHANGED OutgoingParas
           ELSE OutgoingParas' = VecInsert(OutgoingParas, found.idx, id)
    /\ UNCHANGED <<now, pc, Parachains, Heads, CurrentCode, PastCode, PastCodeMeta,
                   PastCodePruning, FutureCodeUpgrades, FutureCode, UpcomingParas,
                   UpcomingParasGenesis, retiredAt,
                   everCleanedUp>>

\* A mutant of AlreadyScheduled: a pending upgrade is not looked for.
AlreadyScheduled_Never(up) == FALSE

\* schedule_code_upgrade: `up.is_some()`, an upgrade is already scheduled.
AlreadyScheduled(up) == IsSome(up)

\* schedule_code_upgrade(id, new_code, expected_at)
ScheduleCodeUpgrade(id, new_code, expected_at) ==
    /\ pc = "body"
    /\ callsLeft > 0
    /\ callsLeft' = callsLeft - 1
    /\ IF AlreadyScheduled(FutureCodeUpgrades[id])
       THEN UNCHANGED <<FutureCodeUpgrades, FutureCode>>
       ELSE /\ FutureCodeUpgrades' = [FutureCodeUpgrades EXCEPT ![id] = Some(expected_at)]
            /\ FutureCode' = [FutureCode EXCEPT ![id] = Some(new_code)]
    /\ UNCHANGED <<now, pc, Parachains, Heads, CurrentCode, PastCode, PastCodeMeta,
                   PastCodePruning, UpcomingParas, UpcomingParasGenesis,
                   OutgoingParas, retiredAt,
                   everCleanedUp>>

\* A mutant of UpgradeDue: the comparison made strict.
UpgradeDue_Strict(expected_at, execution_context) == expected_at < execution_context

\* note_new_head: `expected_at <= execution_context`, the pending upgrade is due.
UpgradeDue(expected_at, execution_context) == expected_at <= execution_context

\* note_new_head(id, new_head, execution_context)
NoteNewHead(id, new_head, execution_context) ==
    /\ pc = "body"
    /\ callsLeft > 0
    /\ callsLeft' = callsLeft - 1
    /\ IF IsSome(FutureCodeUpgrades[id])
       THEN LET expected_at == Unwrap(FutureCodeUpgrades[id])
            IN  /\ Heads' = [Heads EXCEPT ![id] = Some(new_head)]
                /\ IF UpgradeDue(expected_at, execution_context)
                   THEN LET new_code == IF IsSome(FutureCode[id])
                                        THEN Unwrap(FutureCode[id]) ELSE EmptyCode
                            prior_code == IF IsSome(CurrentCode[id])
                                          THEN Unwrap(CurrentCode[id]) ELSE EmptyCode
                            st == note_past_code(
                                      PastStore(PastCodeMeta, PastCode, PastCodePruning),
                                      id, expected_at, now, prior_code)
                        IN  /\ FutureCodeUpgrades' =
                                   [FutureCodeUpgrades EXCEPT ![id] = None]
                            /\ FutureCode' = [FutureCode EXCEPT ![id] = None]
                            /\ CurrentCode' = [CurrentCode EXCEPT ![id] = Some(new_code)]
                            /\ PastCodeMeta' = st.meta
                            /\ PastCode' = st.past
                            /\ PastCodePruning' = st.pruning
                   ELSE UNCHANGED <<FutureCodeUpgrades, FutureCode, CurrentCode,
                                    PastCodeMeta, PastCode, PastCodePruning>>
       ELSE UNCHANGED <<Heads, FutureCodeUpgrades, FutureCode, CurrentCode,
                        PastCodeMeta, PastCode, PastCodePruning>>
    /\ UNCHANGED <<now, pc, Parachains, UpcomingParas, UpcomingParasGenesis,
                   OutgoingParas, retiredAt,
                   everCleanedUp>>

\* The codes a caller asks to upgrade a para to: any but the code it runs.
UpgradeCodes(id) ==
    Codes \ {IF IsSome(CurrentCode[id]) THEN Unwrap(CurrentCode[id]) ELSE EmptyCode}

Next ==
    \/ SetBlockNumber
    \/ InitializerOnNewSession
    \/ InitializerInitialize
    \/ \E id \in ParaIds, genesis \in GenesisArgs : ScheduleParaInitialize(id, genesis)
    \/ \E id \in ParaIds : ScheduleParaCleanup(id)
    \/ \E id \in ParaIds :
           \E new_code \in UpgradeCodes(id), expected_at \in BlockNumbers :
               ScheduleCodeUpgrade(id, new_code, expected_at)
    \/ \E id \in ParaIds, new_head \in NewHeads, execution_context \in 0 .. now :
           NoteNewHead(id, new_head, execution_context)

Spec == Init /\ [][Next]_vars

\* The same program with the deeper call budget.
SpecDeep == InitDeep /\ [][Next]_vars

\* ------------------------------------- tests: direct calls of note_past_code

\* tests::note_past_code_sets_up_pruning_correctly: the genesis of the test,
\* on which nothing but the two calls of note_past_code acts.
InitNotePastCodeTest == build(0)

\* Paras::note_past_code(id, at, now, old_code) called on the storage.
CallNotePastCode(id, at, n, old_code) ==
    /\ LET st == note_past_code(
                     PastStore(PastCodeMeta, PastCode, PastCodePruning),
                     id, at, n, old_code)
       IN  /\ PastCodeMeta' = st.meta
           /\ PastCode' = st.past
           /\ PastCodePruning' = st.pruning
    /\ UNCHANGED <<now, Parachains, Heads, CurrentCode, FutureCodeUpgrades,
                   FutureCode, UpcomingParas, UpcomingParasGenesis, OutgoingParas,
                   retiredAt,
                   everCleanedUp, callsLeft>>

\* The first call of the test: note_past_code(id_a, at_a, now_a, code_a).
TestNotePastCodeA(id, at, n, old_code) ==
    /\ pc = "body"
    /\ pc' = "noted_a"
    /\ CallNotePastCode(id, at, n, old_code)

\* The second call of the test: note_past_code(id_b, at_b, now_b, code_b).
TestNotePastCodeB(id, at, n, old_code) ==
    /\ pc = "noted_a"
    /\ pc' = "noted_b"
    /\ CallNotePastCode(id, at, n, old_code)

\* The calls of the test have at <= now (10 and 12, 20 and 23): a replacement
\* is noted in the block of its context or later.
NextNotePastCodeTest ==
    \/ \E id \in ParaIds, at \in BlockNumbers, n \in BlockNumbers, old_code \in Codes :
           at <= n /\ TestNotePastCodeA(id, at, n, old_code)
    \/ \E id \in ParaIds, at \in BlockNumbers, n \in BlockNumbers, old_code \in Codes :
           at <= n /\ TestNotePastCodeB(id, at, n, old_code)

SpecNotePastCodeTest == InitNotePastCodeTest /\ [][NextNotePastCodeTest]_vars

\* ------------------------------------- tests: a ParaPastCodeMeta on its own

\* tests::para_past_code_meta_gives_right_code: `past_code` is the ledger of
\* para 0 and starts as ParaPastCodeMeta::default(); nothing else is touched.
InitPastCodeMetaTest == build(0)

SetPastCode(meta) ==
    /\ PastCodeMeta' = [PastCodeMeta EXCEPT ![0] = meta]
    /\ UNCHANGED <<now, pc, Parachains, Heads, CurrentCode, PastCode,
                   PastCodePruning, FutureCodeUpgrades, FutureCode, UpcomingParas,
                   UpcomingParasGenesis, OutgoingParas, retiredAt,
                   everCleanedUp, callsLeft>>

\* past_code.note_replacement(at, included_at), as (10, 12) and (20, 25) in
\* the test; any order of the replaced-at numbers is tried.
TestNoteReplacement(at, included_at) ==
    /\ Len(PastCodeMeta[0].upgrade_times) < MaxEntries
    /\ at <= included_at
    /\ SetPastCode(note_replacement(PastCodeMeta[0], at, included_at))

\* past_code.prune_up_to(max), the iterator run to its end.
TestPruneUpTo(max) ==
    /\ PastCodeMeta[0].upgrade_times # <<>>
    /\ SetPastCode(prune_up_to(PastCodeMeta[0], max).meta)

\* past_code.last_pruned = Some(n), as Some(5) in the test.
TestSetLastPruned(n) ==
    SetPastCode([PastCodeMeta[0] EXCEPT !.last_pruned = Some(n)])

NextPastCodeMetaTest ==
    \/ \E at \in BlockNumbers, included_at \in BlockNumbers :
           TestNoteReplacement(at, included_at)
    \/ \E max \in BlockNumbers : TestPruneUpTo(max)
    \/ \E n \in BlockNumbers : TestSetLastPruned(n)

SpecPastCodeMetaTest == InitPastCodeMetaTest /\ [][NextPastCodeMetaTest]_vars

\* ------------------------------------------------------------------ claims

\* FutureCode::get / CurrentCode::get(..).unwrap_or_default(): the stored code,
\* the empty code when none is stored.
OrDefault(o) == IF IsSome(o) THEN Unwrap(o) ELSE EmptyCode

\* C1: upgrade delay. A note_new_head call on a para with an upgrade pending
\* for T, made with an execution context below T, leaves the current code,
\* the pending upgrade and the past code alone; made with a context of T or
\* more it applies the upgrade once: the current code becomes the pending
\* code, the prior code (the empty code when there was none) is stored in
\* PastCode under (para, T), the ledger gains one entry and its most recent
\* change is T, and both pending entries are cleared. A call on a para with
\* no pending upgrade applies nothing.
C1_UpgradeDelay ==
    [][\A id \in ParaIds, new_head \in NewHeads, ctx \in BlockNumbers :
          NoteNewHead(id, new_head, ctx) =>
              IF IsNone(FutureCodeUpgrades[id])
              THEN /\ CurrentCode' = CurrentCode
                   /\ PastCode' = PastCode
                   /\ PastCodeMeta' = PastCodeMeta
                   /\ PastCodePruning' = PastCodePruning
                   /\ FutureCodeUpgrades' = FutureCodeUpgrades
                   /\ FutureCode' = FutureCode
              ELSE LET T == Unwrap(FutureCodeUpgrades[id])
                   IN  IF ctx < T
                       THEN /\ CurrentCode' = CurrentCode
                            /\ PastCode' = PastCode
                            /\ PastCodeMeta' = PastCodeMeta
                            /\ PastCodePruning' = PastCodePruning
                            /\ FutureCodeUpgrades' = FutureCodeUpgrades
                            /\ FutureCode' = FutureCode
                       ELSE /\ CurrentCode'[id] = Some(OrDefault(FutureCode[id]))
                            /\ PastCode'[<<id, T>>] = Some(OrDefault(CurrentCode[id]))
                            /\ Len(PastCodeMeta'[id].upgrade_times)
                                   = Len(PastCodeMeta[id].upgrade_times) + 1
                            /\ most_recent_change(PastCodeMeta'[id]) = Some(T)
                            /\ FutureCodeUpgrades'[id] = None
                            /\ FutureCode'[id] = None
                            /\ \A other \in ParaIds \ {id} :
                                   /\ CurrentCode'[other] = CurrentCode[other]
                                   /\ PastCodeMeta'[other] = PastCodeMeta[other]
    ]_vars

\* C1 witness: an upgrade has been applied later than its target T: the
\* ledger's front entry is (T, n) with T < n, the past code under (para, T) is
\* the genesis code, the current code is another one and nothing is pending.
C1_Witness ==
    \E id \in ParaIds :
        /\ Len(PastCodeMeta[id].upgrade_times) = 1
        /\ PastCodeMeta[id].upgrade_times[1][1] < PastCodeMeta[id].upgrade_times[1][2]
        /\ PastCode[<<id, PastCodeMeta[id].upgrade_times[1][1]>>] = Some(GenesisCode)
        /\ IsSome(CurrentCode[id])
        /\ CurrentCode[id] # Some(GenesisCode)
        /\ IsNone(FutureCodeUpgrades[id])
        /\ IsNone(FutureCode[id])
        /\ IsSome(Heads[id])

\* C2: first scheduled upgrade wins. A schedule_code_upgrade call on a para
\* that has a pending upgrade changes neither pending entry, nor anything
\* else of the storage; and a pending upgrade changes only when note_new_head
\* applies it or the session change cleans the para up.
C2_FirstUpgradeWins ==
    [][/\ \A id \in ParaIds, new_code \in Codes, expected_at \in BlockNumbers :
              (IsSome(FutureCodeUpgrades[id])
               /\ ScheduleCodeUpgrade(id, new_code, expected_at))
              => UNCHANGED <<now, pc, Parachains, Heads, CurrentCode, PastCode,
                             PastCodeMeta, PastCodePruning, FutureCodeUpgrades,
                             FutureCode, UpcomingParas, UpcomingParasGenesis,
                             OutgoingParas>>
       /\ \A id \in ParaIds :
              (IsSome(FutureCodeUpgrades[id])
               /\ (FutureCodeUpgrades'[id] # FutureCodeUpgrades[id]
                   \/ FutureCode'[id] # FutureCode[id]))
              => /\ IsNone(FutureCodeUpgrades'[id])
                 /\ IsNone(FutureCode'[id])
                 /\ \/ \E new_head \in NewHeads, ctx \in BlockNumbers :
                           /\ NoteNewHead(id, new_head, ctx)
                           /\ Unwrap(FutureCodeUpgrades[id]) <= ctx
                    \/ (InitializerOnNewSession /\ id \in Elems(OutgoingParas))
    ]_vars

\* C2 witness: a para has a pending upgrade and a caller is about to ask for
\* another one, with another code and another target.
C2_Witness ==
    \E id \in ParaIds : \E new_code \in UpgradeCodes(id), expected_at \in BlockNumbers :
        /\ IsSome(FutureCodeUpgrades[id])
        /\ FutureCode[id] # Some(new_code)
        /\ FutureCodeUpgrades[id] # Some(expected_at)
        /\ ENABLED ScheduleCodeUpgrade(id, new_code, expected_at)

\* C3: note_new_head always records the new head. Every call sets the para's
\* head to new_head; on a para with no pending upgrade it changes nothing
\* else of the storage.
C3_HeadAlwaysRecorded ==
    [][\A id \in ParaIds, new_head \in NewHeads, ctx \in BlockNumbers :
          NoteNewHead(id, new_head, ctx) =>
              /\ Heads'[id] = Some(new_head)
              /\ IsNone(FutureCodeUpgrades[id]) =>
                     UNCHANGED <<now, pc, Parachains, CurrentCode, PastCode,
                                 PastCodeMeta, PastCodePruning, FutureCodeUpgrades,
                                 FutureCode, UpcomingParas, UpcomingParasGenesis,
                                 OutgoingParas>>
    ]_vars

\* The per-block hook (initializer_initialize) has run at block number h.
HookRanAt(h) == now > h \/ (now = h /\ pc = "body")

\* C4: past code is never deleted before its acceptance period has elapsed.
\* A ledger entry (replaced_at, included_at) leaves upgrade_times, or the past
\* code under (para, replaced_at) is removed, only in a step of the per-block
\* hook run at a block number of included_at + acceptance_period + 1 or more.
C4_KeptWithinAcceptancePeriod ==
    [][\A id \in ParaIds :
          \A e \in Elems(PastCodeMeta[id].upgrade_times) :
              (\/ e \notin Elems(PastCodeMeta'[id].upgrade_times)
               \/ (IsSome(PastCode[<<id, e[1]>>]) /\ IsNone(PastCode'[<<id, e[1]>>])))
              => (InitializerInitialize /\ now >= e[2] + AcceptancePeriod + 1)
    ]_vars

\* C5: past code is deleted as soon as its acceptance period has elapsed. Once
\* the per-block hook has run at included_at + acceptance_period + 1, the
\* ledger holds no entry included at included_at, and PastCode holds no code
\* but that of a ledger entry still inside its acceptance period.
C5_PrunedWhenAcceptancePeriodEnds ==
    \A id \in ParaIds :
        /\ \A e \in Elems(PastCodeMeta[id].upgrade_times) :
               ~HookRanAt(e[2] + AcceptancePeriod + 1)
        /\ \A h \in BlockNumbers :
               IsSome(PastCode[<<id, h>>]) =>
                   \E e \in Elems(PastCodeMeta[id].upgrade_times) :
                       e[1] = h /\ ~HookRanAt(e[2] + AcceptancePeriod + 1)

\* The values of assume_intermediate: None or Some(block number).
Intermediates == {None} \cup {Some(i) : i \in BlockNumbers}

\* C6: validation_code_at answers None to a malformed or too old query,
\* whatever is stored: when assume_intermediate is given and is at or after
\* `at`, and when at + acceptance_period + 1 < now.
C6_RejectsMalformedOrOld ==
    \A id \in ParaIds, at \in BlockNumbers, ai \in Intermediates :
        ((IsSome(ai) /\ Unwrap(ai) >= at) \/ at + AcceptancePeriod + 1 < now)
        => validation_code_at(id, at, ai) = None

\* C6 witness: a para with current code and an empty ledger is asked about
\* block 0, now out of the acceptance period, and a para whose pending upgrade
\* is due at the assumed intermediate block is asked about that very block.
C6_Witness ==
    /\ 0 + AcceptancePeriod + 1 < now
    /\ \E id \in ParaIds :
           /\ IsSome(CurrentCode[id])
           /\ code_at(PastCodeMeta[id], 0) = Some(UseCurrent)
           /\ validation_code_at(id, 0, None) = None
    /\ \E id \in ParaIds :
           /\ FutureCodeUpgrades[id] = Some(now)
           /\ IsSome(FutureCode[id])
           /\ validation_code_at(id, now, Some(now)) = None

\* What the ledger lookup of validation_code_at answers for (id, at).
LedgerCode(id, at) ==
    LET use == code_at(PastCodeMeta[id], at)
    IN  IF use = None THEN None
        ELSE IF use = Some(UseCurrent) THEN CurrentCode[id]
        ELSE PastCode[<<id, Unwrap(use).n>>]

\* C7: validation_code_at with an assumed intermediate block. For a query
\* neither guard rejects: when an upgrade is pending with a target at or
\* below assume_intermediate the answer is the pending code; when
\* assume_intermediate is absent, or the target is above it, or nothing is
\* pending, the answer is that of the ledger lookup.
C7_AssumedIntermediate ==
    \A id \in ParaIds, at \in BlockNumbers :
        ~(at + AcceptancePeriod + 1 < now) =>
            LET ledger == LedgerCode(id, at)
            IN  \A ai \in Intermediates :
                    ~(IsSome(ai) /\ Unwrap(ai) >= at) =>
                        IF /\ IsSome(ai)
                           /\ IsSome(FutureCodeUpgrades[id])
                           /\ Unwrap(FutureCodeUpgrades[id]) <= Unwrap(ai)
                        THEN /\ IsSome(FutureCode[id])
                             /\ validation_code_at(id, at, ai) = FutureCode[id]
                        ELSE validation_code_at(id, at, ai) = ledger

\* C7 witness: an upgrade is pending with its target at the assumed
\* intermediate block, and the query for the block after it is answered with
\* the pending code, which is not what the ledger lookup answers.
C7_Witness ==
    \E id \in ParaIds, i \in BlockNumbers :
        /\ FutureCodeUpgrades[id] = Some(i)
        /\ i + 1 \in BlockNumbers
        /\ ~(i + 1 + AcceptancePeriod + 1 < now)
        /\ validation_code_at(id, i + 1, Some(i)) = FutureCode[id]
        /\ IsSome(LedgerCode(id, i + 1))
        /\ LedgerCode(id, i + 1) # FutureCode[id]
        /\ validation_code_at(id, i + 1, None) = LedgerCode(id, i + 1)

\* The replaced-at numbers the ledger of a para records at or after `at`.
ReplacedAtOrAfter(id, at) ==
    {e[1] : e \in {x \in Elems(PastCodeMeta[id].upgrade_times) : x[1] >= at}}

\* C8: the historical lookup returns the code that was in force. Whenever
\* validation_code_at(id, at, None) returns a code, the ledger chose the code
\* replaced at the smallest recorded replaced-at number >= at and the answer is
\* the past code stored under it, or it chose the current code, no recorded
\* replaced-at number being >= at, and the answer is CurrentCode; and the
\* answer is None when the ledger lookup is None.
C8_HistoricalLookup ==
    \A id \in ParaIds, at \in BlockNumbers :
        LET r == validation_code_at(id, at, None)
            use == code_at(PastCodeMeta[id], at)
            S == ReplacedAtOrAfter(id, at)
        IN  /\ use = None => r = None
            /\ IsSome(r) =>
                   IF S = {}
                   THEN use = Some(UseCurrent) /\ r = CurrentCode[id]
                   ELSE LET m == CHOOSE x \in S : \A y \in S : x <= y
                        IN  use = Some(ReplacedAt(m)) /\ r = PastCode[<<id, m>>]

\* C9: retirement at a session boundary. For every para in OutgoingParas when
\* initializer_on_new_session runs at block `now`, and not in UpcomingParas,
\* after the step the para is not in Parachains, has no head, no pending
\* upgrade block and no pending code, and no current code; if it held current
\* code c then PastCode[(para, now)] = c, the most recent ledger entry is
\* (now, now) and PastCodePruning holds the task (para, now). OutgoingParas is
\* empty afterwards.
C9_RetirementAtSessionBoundary ==
    [][InitializerOnNewSession =>
          /\ OutgoingParas' = <<>>
          /\ \A id \in Elems(OutgoingParas) \ Elems(UpcomingParas) :
                 /\ id \notin Elems(Parachains')
                 /\ Heads'[id] = None
                 /\ FutureCodeUpgrades'[id] = None
                 /\ FutureCode'[id] = None
                 /\ CurrentCode'[id] = None
                 /\ IsSome(CurrentCode[id]) =>
                        /\ PastCode'[<<id, now>>] = CurrentCode[id]
                        /\ PastCodeMeta'[id].upgrade_times # <<>>
                        /\ Head(PastCodeMeta'[id].upgrade_times) = <<now, now>>
                        /\ <<id, now>> \in Elems(PastCodePruning')
    ]_vars

\* C9 witness: the session change has just retired a parachain that had an
\* upgrade pending and an earlier replacement in its ledger.
C9_Witness ==
    \E id \in ParaIds :
        /\ pc = "initialize"
        /\ retiredAt[id] = Some(now)
        /\ CurrentCode[id] = None
        /\ Heads[id] = None
        /\ IsSome(PastCode[<<id, now>>])
        /\ Len(PastCodeMeta[id].upgrade_times) >= 2
        /\ Head(PastCodeMeta[id].upgrade_times) = <<now, now>>
        /\ <<id, now>> \in Elems(PastCodePruning)
        /\ OutgoingParas = <<>>

\* A para of which no past-code bookkeeping is left.
Reclaimed(id) ==
    /\ PastCodeMeta[id] = DefaultMeta
    /\ \A h \in BlockNumbers : PastCode[<<id, h>>] = None
    /\ \A i \in 1 .. Len(PastCodePruning) : PastCodePruning[i][1] # id

C11_DeparturesBeforeAdmissions ==
    [][InitializerOnNewSession =>
          \A id \in Elems(OutgoingParas) \cap Elems(UpcomingParas) :
              IsSome(UpcomingParasGenesis[id]) =>
                  LET genesis == Unwrap(UpcomingParasGenesis[id])
                  IN  /\ Heads'[id] = Some(genesis.genesis_head)
                      /\ CurrentCode'[id] = Some(genesis.validation_code)
                      /\ (id \in Elems(Parachains')) <=> genesis.parachain
                      /\ IsSome(CurrentCode[id]) =>
                             /\ PastCode'[<<id, now>>] = CurrentCode[id]
                             /\ PastCodeMeta'[id].upgrade_times # <<>>
                             /\ Head(PastCodeMeta'[id].upgrade_times) = <<now, now>>
                             /\ <<id, now>> \in Elems(PastCodePruning')
    ]_vars

\* C11 witness: the session change has just run and a para holds current code
\* and a head while its ledger starts with a replacement of this very block,
\* which only a clean-up followed by the registration of the same para gives.
C11_Witness ==
    \E id \in ParaIds :
        /\ pc = "initialize"
        /\ IsSome(CurrentCode[id])
        /\ Heads[id] = Some(DefaultHead)
        /\ PastCodeMeta[id].upgrade_times # <<>>
        /\ Head(PastCodeMeta[id].upgrade_times) = <<now, now>>
        /\ IsSome(PastCode[<<id, now>>])
        /\ OutgoingParas = <<>>
        /\ UpcomingParas = <<>>

\* C12: admission at a session boundary. For every para in UpcomingParas whose
\* genesis arguments are present when initializer_on_new_session runs, after
\* the step its head is genesis_head and its current code validation_code; a
\* para not in Parachains before (or cleaned up in this step) is in Parachains
\* afterwards exactly when the arguments say parachain; UpcomingParas is empty
\* and the genesis arguments are taken. A queued para without arguments is
\* skipped: its head and current code are as the clean-up left them.
C12_AdmissionAtSessionBoundary ==
    [][InitializerOnNewSession =>
          /\ UpcomingParas' = <<>>
          /\ \A id \in Elems(UpcomingParas) :
                 /\ UpcomingParasGenesis'[id] = None
                 /\ IsSome(UpcomingParasGenesis[id]) =>
                        LET genesis == Unwrap(UpcomingParasGenesis[id])
                        IN  /\ Heads'[id] = Some(genesis.genesis_head)
                            /\ CurrentCode'[id] = Some(genesis.validation_code)
                            /\ genesis.parachain => id \in Elems(Parachains')
                            /\ (~genesis.parachain
                                /\ (id \notin Elems(Parachains)
                                    \/ id \in Elems(OutgoingParas)))
                               => id \notin Elems(Parachains')
                 /\ IsNone(UpcomingParasGenesis[id]) =>
                        /\ id \in Elems(Parachains') <=>
                               (id \in Elems(Parachains)
                                /\ id \notin Elems(OutgoingParas))
                        /\ Heads'[id] = IF id \in Elems(OutgoingParas) THEN None
                                        ELSE Heads[id]
                        /\ CurrentCode'[id] = IF id \in Elems(OutgoingParas)
                                              THEN None ELSE CurrentCode[id]
    ]_vars

\* C12 witness: the session change has just registered a parathread, which
\* has its genesis head and code and is not in Parachains, next to a
\* parachain that is.
C12_Witness ==
    /\ pc = "initialize"
    /\ UpcomingParas = <<>>
    /\ Parachains # <<>>
    /\ \E id \in ParaIds :
           /\ id \notin Elems(Parachains)
           /\ retiredAt[id] = None
           /\ Heads[id] = Some(DefaultHead)
           /\ CurrentCode[id] = Some(GenesisCode)
           /\ PastCodeMeta[id].upgrade_times # <<>>

\* The number of entries of a Vec that equal x.
Count(v, x) == Cardinality({i \in 1 .. Len(v) : v[i] = x})

\* C13: idempotent requests. After schedule_para_initialize(id, genesis),
\* UpcomingParas holds id exactly once, and when id was queued already the
\* queue and the stored genesis arguments are those of the first request;
\* after schedule_para_cleanup(id), OutgoingParas holds id exactly once and is
\* unchanged when id was queued already.
C13_IdempotentRequests ==
    [][/\ \A id \in ParaIds, genesis \in GenesisArgs :
              ScheduleParaInitialize(id, genesis) =>
                  /\ Count(UpcomingParas', id) = 1
                  /\ id \in Elems(UpcomingParas) =>
                         /\ UpcomingParas' = UpcomingParas
                         /\ UpcomingParasGenesis' = UpcomingParasGenesis
                  /\ id \notin Elems(UpcomingParas) =>
                         UpcomingParasGenesis'[id] = Some(genesis)
       /\ \A id \in ParaIds :
              ScheduleParaCleanup(id) =>
                  /\ Count(OutgoingParas', id) = 1
                  /\ id \in Elems(OutgoingParas) => OutgoingParas' = OutgoingParas
    ]_vars

\* C13 witness: a para is queued for registration and for clean-up, and a
\* caller is about to ask for both again, the registration with other genesis
\* arguments.
C13_Witness ==
    \E id \in ParaIds, genesis \in GenesisArgs :
        /\ id \in Elems(UpcomingParas)
        /\ id \in Elems(OutgoingParas)
        /\ UpcomingParasGenesis[id] # Some(genesis)
        /\ ENABLED ScheduleParaInitialize(id, genesis)
        /\ ENABLED ScheduleParaCleanup(id)

\* C14: Parachains is mutated only at session boundaries. Every step that
\* changes Parachains is initializer_on_new_session: schedule_code_upgrade,
\* note_new_head, initializer_initialize, schedule_para_initialize and
\* schedule_para_cleanup leave it unchanged; and schedule_para_cleanup changes
\* nothing of the storage but OutgoingParas.
C14_ParachainsOnlyAtSessionBoundary ==
    [][/\ Parachains' # Parachains => InitializerOnNewSession
       /\ InitializerInitialize => UNCHANGED Parachains
       /\ \A id \in ParaIds :
              /\ \A genesis \in GenesisArgs :
                     ScheduleParaInitialize(id, genesis) => UNCHANGED Parachains
              /\ \A new_code \in Codes, expected_at \in BlockNumbers :
                     ScheduleCodeUpgrade(id, new_code, expected_at)
                         => UNCHANGED Parachains
              /\ \A new_head \in NewHeads, ctx \in BlockNumbers :
                     NoteNewHead(id, new_head, ctx) => UNCHANGED Parachains
              /\ ScheduleParaCleanup(id) =>
                     UNCHANGED <<now, Parachains, Heads, CurrentCode, PastCode,
                                 PastCodeMeta, PastCodePruning, FutureCodeUpgrades,
                                 FutureCode, UpcomingParas, UpcomingParasGenesis>>
    ]_vars

\* C14 witness: a parachain whose clean-up has been requested is still in
\* Parachains with its head, its current code and its pending upgrade.
C14_Witness ==
    \E id \in ParaIds :
        /\ id \in Elems(OutgoingParas)
        /\ id \in Elems(Parachains)
        /\ IsSome(Heads[id])
        /\ IsSome(CurrentCode[id])
        /\ IsSome(FutureCodeUpgrades[id])
        /\ IsSome(FutureCode[id])

\* C15: para state is created only by registration. A para that was cleaned
\* up at a session change and not registered again has no head and no current
\* code, whatever calls of schedule_code_upgrade and note_new_head follow.
C15_StateOnlyByAdmission ==
    \A id \in ParaIds :
        IsSome(retiredAt[id]) =>
            /\ Heads[id] = None
            /\ CurrentCode[id] = None

\* C16: the pruned-height contract. Once the ledger of a para has
\* last_pruned = Some(L), code_at answers None for every block number h <= L
\* and a known answer (Current or ReplacedAt) for every h > L.
C16_PrunedHeightContract ==
    \A id \in ParaIds :
        IsSome(PastCodeMeta[id].last_pruned) =>
            \A h \in BlockNumbers :
                IF h <= Unwrap(PastCodeMeta[id].last_pruned)
                THEN code_at(PastCodeMeta[id], h) = None
                ELSE code_at(PastCodeMeta[id], h) # None

\* C17: PastCodePruning is sorted ascending by the block number of its tasks
\* in every reachable state.
C17_PruningQueueSorted ==
    \A i, j \in 1 .. Len(PastCodePruning) :
        i < j => PastCodePruning[i][2] <= PastCodePruning[j][2]

C19_SecondCall(id_a, at_a, now_a, id_b, at_b, now_b, code_b) ==
    /\ id_a # id_b
    /\ at_a < at_b
    /\ PastCodeMeta[id_a].upgrade_times = <<<<at_a, now_a>>>>
    /\ PastCodeMeta[id_b].upgrade_times = <<>>
    /\ TestNotePastCodeB(id_b, at_b, now_b, code_b)

StrictlyDescending(ut) ==
    \A i \in 1 .. Len(ut) - 1 : ut[i][1] > ut[i + 1][1]

\* The reference definition of the lookup: Current when there is no entry or
\* the most recent replaced-at number is < at, and otherwise the smallest
\* recorded replaced-at number that is >= at.
ReferenceCodeAt(ut, at) ==
    LET G == {r \in {ut[i][1] : i \in 1 .. Len(ut)} : r >= at}
    IN  IF ut = <<>> \/ ut[1][1] < at
        THEN UseCurrent
        ELSE ReplacedAt(CHOOSE r \in G : \A q \in G : r <= q)

\* last_pruned is absent or < at.
NotPrunedAt(meta, at) ==
    IsNone(meta.last_pruned) \/ Unwrap(meta.last_pruned) < at

\* C20: for a ledger whose upgrade_times are strictly descending and every
\* `at` with last_pruned absent or < at, code_at(at) is Some of the reference
\* answer: Current when the list is empty or the most recent replaced-at
\* number is < at, and ReplacedAt(r) for the smallest recorded r >= at
\* otherwise.
C20_LookupMatchesReference ==
    \A at \in BlockNumbers :
        LET meta == PastCodeMeta[0]
        IN  (StrictlyDescending(meta.upgrade_times) /\ NotPrunedAt(meta, at)) =>
                code_at(meta, at) = Some(ReferenceCodeAt(meta.upgrade_times, at))

\* C20 witness: a ledger of two or more strictly descending entries where,
\* for the older of the first two, r, the lookup at r answers ReplacedAt(r),
\* at r + 1 the next version, at a number before every replacement the
\* oldest one and at a number after the newest Current.
C20_Witness ==
    LET meta == PastCodeMeta[0]
        ut == meta.upgrade_times
    IN  /\ Len(ut) >= 2
        /\ StrictlyDescending(ut)
        /\ LET r == ut[2][1]
           IN  /\ NotPrunedAt(meta, r)
               /\ code_at(meta, r) = Some(ReplacedAt(r))
               /\ r + 1 \in BlockNumbers
               /\ code_at(meta, r + 1) = Some(ReplacedAt(ut[1][1]))
        /\ \E at \in BlockNumbers :
               /\ at < ut[Len(ut)][1]
               /\ NotPrunedAt(meta, at)
               /\ code_at(meta, at) = Some(ReplacedAt(ut[Len(ut)][1]))
        /\ \E at \in BlockNumbers :
               /\ at > ut[1][1]
               /\ code_at(meta, at) = Some(UseCurrent)

\* The entries of upgrade_times that prune_up_to(max) is to keep: those
\* included after max.
IncludedAfter(ut, max) == SelectSeq(ut, LAMBDA t : t[2] > max)

\* The replaced-at numbers of the entries included at or before max.
ReplacedUpTo(ut, max) == {ut[i][1] : i \in {j \in 1 .. Len(ut) : ut[j][2] <= max}}

\* The sequence is in ascending order.
Ascending(v) == \A i \in 1 .. Len(v) - 1 : v[i] <= v[i + 1]

\* C21: prune_up_to(max) on the ledger of any para removes exactly the
\* entries with included_at <= max, yields their replaced-at numbers in
\* ascending order and sets last_pruned to the largest of them; when no entry
\* has included_at <= max it yields nothing and leaves the ledger as it is.
C21_PruneUpToRemovesExactly ==
    \A id \in ParaIds, max \in BlockNumbers :
        LET meta == PastCodeMeta[id]
            ut == meta.upgrade_times
            r == prune_up_to(meta, max)
            removed == ReplacedUpTo(ut, max)
        IN  IF removed = {}
            THEN r.pruned = <<>> /\ r.meta = meta
            ELSE /\ r.meta.upgrade_times = IncludedAfter(ut, max)
                 /\ Len(r.pruned) = Len(ut) - Len(IncludedAfter(ut, max))
                 /\ Elems(r.pruned) = removed
                 /\ Ascending(r.pruned)
                 /\ r.meta.last_pruned =
                        Some(CHOOSE m \in removed : \A q \in removed : q <= m)

\* C22: for every ledger and every max, a prune_up_to(max2) with max2 <= max
\* right after prune_up_to(max) yields no heights and leaves upgrade_times and
\* last_pruned as the first call left them.
C22_PruneUpToIdempotent ==
    \A max \in BlockNumbers, max2 \in BlockNumbers :
        max2 <= max =>
            LET first == prune_up_to(PastCodeMeta[0], max)
                second == prune_up_to(first.meta, max2)
            IN  /\ second.pruned = <<>>
                /\ second.meta = first.meta

\* C22 witness: a ledger on which prune_up_to(max) drains two entries and
\* keeps one, so that the second call has entries left to look at.
C22_Witness ==
    \E max \in BlockNumbers :
        LET first == prune_up_to(PastCodeMeta[0], max)
        IN  /\ Len(first.pruned) >= 2
            /\ first.meta.upgrade_times # <<>>
            /\ first.meta.last_pruned # PastCodeMeta[0].last_pruned
            /\ prune_up_to(first.meta, max).meta = first.meta

\* C23: in every reachable state the upgrade_times of every para are
\* strictly descending from front to back in the replaced-at numbers and in
\* the included-at numbers.
C23_LedgerStrictlyDescending ==
    \A id \in ParaIds :
        LET ut == PastCodeMeta[id].upgrade_times
        IN  \A i \in 1 .. Len(ut) - 1 :
                /\ ut[i][1] > ut[i + 1][1]
                /\ ut[i][2] > ut[i + 1][2]

\* C24: in every reachable state Parachains is strictly ascending by para
\* id, and so without duplicates.
C24_ParachainsAscending ==
    \A i \in 1 .. Len(Parachains) - 1 : Parachains[i] < Parachains[i + 1]

\* C24 witness: a session change has admitted para 1, a parathread at
\* genesis, as a parachain behind para 0, and both have head and code.
C24_Witness ==
    /\ Parachains = <<0, 1>>
    /\ pc = "initialize"
    /\ IsSome(Heads[0]) /\ IsSome(CurrentCode[0])
    /\ IsSome(Heads[1]) /\ IsSome(CurrentCode[1])

\* FutureCodeUpgrades and FutureCode of the para are both there or both not.
PendingInStep(id) == IsSome(FutureCodeUpgrades[id]) <=> IsSome(FutureCode[id])

\* C25: in every reachable state and for every para, FutureCodeUpgrades and
\* FutureCode are both present or both absent; and the two change only
\* together: a schedule_code_upgrade(id, new_code, expected_at) on a para
\* without pending upgrade stores expected_at and new_code, and every other
\* change removes both, so the stored code is the one that came with the
\* stored target.
C25_PendingUpgradeInStep ==
    /\ [](\A id \in ParaIds : PendingInStep(id))
    /\ [][\A id \in ParaIds :
              (FutureCodeUpgrades'[id] # FutureCodeUpgrades[id]
               \/ FutureCode'[id] # FutureCode[id])
              => \/ /\ IsNone(FutureCodeUpgrades'[id])
                    /\ IsNone(FutureCode'[id])
                 \/ \E new_code \in Codes, expected_at \in BlockNumbers :
                        /\ ScheduleCodeUpgrade(id, new_code, expected_at)
                        /\ IsNone(FutureCodeUpgrades[id])
                        /\ FutureCodeUpgrades'[id] = Some(expected_at)
                        /\ FutureCode'[id] = Some(new_code)
       ]_vars

\* C25 witness: one para has a pending upgrade, target and code, and the
\* other has had one applied and has neither.
C25_Witness ==
    \E id \in ParaIds, other \in ParaIds :
        /\ id # other
        /\ IsSome(FutureCodeUpgrades[id])
        /\ IsSome(FutureCode[id])
        /\ PastCodeMeta[other].upgrade_times # <<>>
        /\ IsSome(CurrentCode[other])
        /\ IsNone(FutureCodeUpgrades[other])
        /\ IsNone(FutureCode[other])

\* validation_code_at(id, at, None) answers with a code for every block
\* number at <= now that the acceptance-period guard lets through.
AnswersWithinAcceptancePeriod(id) ==
    \A at \in BlockNumbers :
        (at <= now /\ at + AcceptancePeriod + 1 >= now)
        => IsSome(validation_code_at(id, at, None))

\* C26: for a para registered since genesis and never cleaned up, which holds
\* current code, validation_code_at(id, at, None) returns a code for every
\* at <= now with at + acceptance_period + 1 >= now, the boundary
\* at + acceptance_period + 1 = now included.
C26_AvailableWithinAcceptancePeriod ==
    \A id \in ParaIds :
        (id \notin everCleanedUp /\ IsSome(CurrentCode[id]))
        => AnswersWithinAcceptancePeriod(id)

\* C27: in every reachable state PastCode[(id, h)] is present exactly when h
\* is the replaced-at number of an entry of the ledger of id, and every ledger
\* entry (h, i) has its task (id, i) in PastCodePruning.
C27_PastCodeMatchesLedger ==
    \A id \in ParaIds :
        LET ut == PastCodeMeta[id].upgrade_times
        IN  /\ \A h \in BlockNumbers :
                   IsSome(PastCode[<<id, h>>]) <=> (\E e \in Elems(ut) : e[1] = h)
            /\ \A e \in Elems(ut) : <<id, e[2]>> \in Elems(PastCodePruning)

\* The ids of the Vec are strictly ascending.
AscendingIds(v) == \A i \in 1 .. Len(v) - 1 : v[i] < v[i + 1]

\* C28: in every reachable state a para is in UpcomingParas exactly when its
\* UpcomingParasGenesis is present, and UpcomingParas and OutgoingParas are
\* strictly ascending (so without duplicates); apply_incoming therefore finds
\* the arguments of every para it takes from UpcomingParas.
C28_UpcomingMatchesGenesis ==
    /\ \A id \in ParaIds :
           id \in Elems(UpcomingParas) <=> IsSome(UpcomingParasGenesis[id])
    /\ AscendingIds(UpcomingParas)
    /\ AscendingIds(OutgoingParas)

\* C28 witness: both paras wait in UpcomingParas with their arguments and a
\* para waits in OutgoingParas.
C28_Witness ==
    /\ UpcomingParas = <<0, 1>>
    /\ IsSome(UpcomingParasGenesis[0])
    /\ IsSome(UpcomingParasGenesis[1])
    /\ OutgoingParas # <<>>

====
